---------------------------- MODULE Spec2Model ----------------------------
(***************************************************************************)
(* A model of the DSF (DSD Stream File) codec of package audio/dsf:        *)
(* Decode (reader.go, dsd.go, fmt.go, data.go, metadata.go) and Encode     *)
(* (writer.go, dsd.go, fmt.go), together with the Audio value of package   *)
(* audio.                                                                  *)
(*                                                                         *)
(* Byte strings ([]byte buffers, the byte source and the byte sink) are    *)
(* held run-length encoded: a sequence of runs <<n, b>>, n > 0 copies of   *)
(* the byte b, adjacent runs holding different bytes.  The encoding is     *)
(* canonical, so two byte strings are equal exactly when their encodings   *)
(* are; it keeps a 4096-byte block to one run.  Integers read from the     *)
(* stream are decoded little-endian from their bytes; every field value    *)
(* drawn below is less than 2^31, so none of the code's uint32/uint64      *)
(* operations wraps on the inputs explored.                                *)
(***************************************************************************)
EXTENDS Integers, Sequences, FiniteSets, TLC

VARIABLES
    pc,       \* the position of the call in progress
    source,   \* Decode: the bytes of the byte source when Decode was called
    reader,   \* Decode: the bytes of the source not read yet
    nread,    \* Decode: the number of bytes read from the source
    logTo,    \* the logTo argument: "nil", "sink" or (Decode) "discard"
    d,        \* the decoder: d.audio and the chunks d.dsd, d.fmt, d.data
    err,      \* the error the last step of decode or encode returned
    ret,      \* what Decode returned
    steps,    \* the chunk readers or writers called so far, in order
    a,        \* Encode: the Audio the caller passed (e.audio points to it)
    writer,   \* Encode: the bytes the byte sink has taken
    nwrites,  \* Encode: the number of Write calls made on the sink
    failAt,   \* Encode: the Write call at which the sink fails, 0 for never
    e,        \* the encoder: the chunks e.dsd and e.fmt
    eret,     \* what Encode returned, "none" before it has
    orders    \* the contents of the package variable fmtChannelOrder

vars == <<pc, source, reader, nread, logTo, d, err, ret, steps,
          a, writer, nwrites, failAt, e, eret, orders>>

(***************************************************************************)
(* Bounds of the exploration.                                              *)
(***************************************************************************)
\* The sample payload of an input stream holds 1..MaxBlocks blocks per channel.
MaxBlocks == 2
\* The longest metadata an input stream or an input Audio carries, in bytes.
MaxMetaLen == 5

(***************************************************************************)
(* Byte strings.                                                           *)
(***************************************************************************)
\* The recursions below halve the string, which keeps them shallow.
RECURSIVE BLenR(_, _, _)
BLenR(s, i, j) ==
    IF i > j THEN 0
    ELSE IF i = j THEN s[i][1]
    ELSE BLenR(s, i, (i + j) \div 2) + BLenR(s, (i + j) \div 2 + 1, j)

\* len(s)
BLen(s) == BLenR(s, 1, Len(s))

BRun(n, b) == IF n = 0 THEN <<>> ELSE << <<n, b>> >>

\* make([]byte, n): n zero bytes.
BZeros(n) == BRun(n, 0)

\* s followed by t.
BCat(s, t) ==
    IF s = <<>> THEN t
    ELSE IF t = <<>> THEN s
    ELSE IF s[Len(s)][2] = t[1][2]
         THEN SubSeq(s, 1, Len(s) - 1)
              \o << <<s[Len(s)][1] + t[1][1], t[1][2]>> >>
              \o Tail(t)
         ELSE s \o t

\* The first n bytes of s (all of s when it is shorter).
RECURSIVE BTake(_, _)
BTake(s, n) ==
    IF n = 0 \/ s = <<>> THEN <<>>
    ELSE IF Len(s) = 1
         THEN << <<IF s[1][1] < n THEN s[1][1] ELSE n, s[1][2]>> >>
    ELSE LET h == Len(s) \div 2
             la == BLenR(s, 1, h)
         IN  IF n <= la THEN BTake(SubSeq(s, 1, h), n)
             ELSE SubSeq(s, 1, h) \o BTake(SubSeq(s, h + 1, Len(s)), n - la)

\* s without its first n bytes.
RECURSIVE BDrop(_, _)
BDrop(s, n) ==
    IF n = 0 \/ s = <<>> THEN s
    ELSE IF Len(s) = 1
         THEN IF s[1][1] > n THEN << <<s[1][1] - n, s[1][2]>> >> ELSE <<>>
    ELSE LET h == Len(s) \div 2
             la == BLenR(s, 1, h)
         IN  IF n >= la THEN BDrop(SubSeq(s, h + 1, Len(s)), n - la)
             ELSE BDrop(SubSeq(s, 1, h), n) \o SubSeq(s, h + 1, Len(s))

RECURSIVE BFromSeqR(_, _, _)
BFromSeqR(q, i, j) ==
    IF i > j THEN <<>>
    ELSE IF i = j THEN << <<1, q[i]>> >>
    ELSE BCat(BFromSeqR(q, i, (i + j) \div 2),
              BFromSeqR(q, (i + j) \div 2 + 1, j))

\* The byte string holding the bytes of the sequence q.
BFromSeq(q) == BFromSeqR(q, 1, Len(q))

RECURSIVE BExpandR(_, _, _)
BExpandR(s, i, j) ==
    IF i > j THEN <<>>
    ELSE IF i = j THEN [k \in 1..s[i][1] |-> s[i][2]]
    ELSE BExpandR(s, i, (i + j) \div 2) \o BExpandR(s, (i + j) \div 2 + 1, j)

\* The sequence of the bytes of the byte string s.
BExpand(s) == BExpandR(s, 1, Len(s))

(***************************************************************************)
(* encoding/binary, little-endian.                                         *)
(***************************************************************************)
\* binary.LittleEndian.PutUint32 / PutUint64: v as n bytes, lowest first.
RECURSIVE PutUint(_, _)
PutUint(v, n) == IF n = 0 THEN <<>> ELSE <<v % 256>> \o PutUint(v \div 256, n - 1)

\* binary.LittleEndian.Uint32 / Uint64: the value of the bytes bs.
RECURSIVE Uint(_)
Uint(bs) == IF bs = <<>> THEN 0 ELSE bs[1] + 256 * Uint(Tail(bs))

\* A uint64 is kept as four limbs of 16 bits, lowest first, where the code
\* computes with it: the arithmetic is modulo 2^64.
Limb == 2 ^ 16

\* binary.LittleEndian.Uint64 of the 8 bytes bs.
U64(bs) == [i \in 1..4 |-> bs[2 * i - 1] + 256 * bs[2 * i]]

\* x / k and x % k for uint64 x and a small k.
U64Div(x, k) ==
    LET r4 == x[4] % k
        r3 == (r4 * Limb + x[3]) % k
        r2 == (r3 * Limb + x[2]) % k
    IN  <<(r2 * Limb + x[1]) \div k, (r3 * Limb + x[2]) \div k,
          (r4 * Limb + x[3]) \div k, x[4] \div k>>

U64Mod(x, k) ==
    LET r4 == x[4] % k
        r3 == (r4 * Limb + x[3]) % k
        r2 == (r3 * Limb + x[2]) % k
    IN  (r2 * Limb + x[1]) % k

\* x + n and x * k for uint64 x and small n, k: the carry out of the highest
\* limb is lost.
U64Add(x, n) ==
    LET s1 == x[1] + n
        s2 == x[2] + (s1 \div Limb)
        s3 == x[3] + (s2 \div Limb)
        s4 == x[4] + (s3 \div Limb)
    IN  <<s1 % Limb, s2 % Limb, s3 % Limb, s4 % Limb>>

U64Mul(x, k) ==
    LET p1 == x[1] * k
        p2 == x[2] * k + (p1 \div Limb)
        p3 == x[3] * k + (p2 \div Limb)
        p4 == x[4] * k + (p3 \div Limb)
    IN  <<p1 % Limb, p2 % Limb, p3 % Limb, p4 % Limb>>

\* make([]byte, x) for uint64 x: a length below 2^31 is allocated, and the
\* lengths above it that the streams tried give are beyond 2^48, which no
\* platform allocates: makeslice panics.
U64Fits(x) == x[3] = 0 /\ x[4] = 0 /\ x[2] < 2 ^ 15

U64Int(x) == x[1] + Limb * x[2]

\* A read that hides a short source: the bytes missing are delivered as
\* zeroes, without an error.  C6 must tell it from ReadFull.
ReadFullZeroFill(r, n) ==
    IF BLen(r) >= n
    THEN [err |-> "nil", data |-> BTake(r, n), rest |-> BDrop(r, n)]
    ELSE [err |-> "nil", data |-> BCat(r, BZeros(n - BLen(r))), rest |-> <<>>]

\* io.ReadFull on a source holding the bytes r, asked for n bytes: the bytes
\* delivered, what is left of the source, and the error ("nil" for none).
\* A short source is consumed to its end.
ReadFull(r, n) ==
    IF BLen(r) >= n
    THEN [err |-> "nil", data |-> BTake(r, n), rest |-> BDrop(r, n)]
    ELSE [err |-> IF BLen(r) = 0 THEN "EOF" ELSE "unexpected EOF",
          data |-> r, rest |-> <<>>]


(***************************************************************************)
(* Package audio: encodings, channels and the Audio value.                 *)
(***************************************************************************)
DSD == 0
DST == 1

FrontLeft == 0
FrontRight == 1
Center == 2
LowFrequency == 3
BackLeft == 4
BackRight == 5

\* new(audio.Audio): every field at its zero value, the slices nil (empty).
ZeroAudio ==
    [Encoding |-> DSD, NumChannels |-> 0, ChannelOrder |-> <<>>,
     SamplingFrequency |-> 0, BitsPerSample |-> 0, BlockSize |-> 0,
     EncodedSamples |-> <<>>, Metadata |-> <<>>]

(***************************************************************************)
(* Chunk layouts, tags, sizes and lookup tables.                           *)
(***************************************************************************)
\* The sizes in bytes of the fields of the structs binary.Read fills.
DsdChunk == <<4, 8, 8, 8>>
FmtChunk == <<4, 8, 4, 4, 4, 4, 4, 4, 8, 4, 4>>
DataChunk == <<4, 8>>

RECURSIVE SumTo(_, _)
SumTo(layout, k) == IF k = 0 THEN 0 ELSE layout[k] + SumTo(layout, k - 1)

\* The number of bytes binary.Read asks for to fill a struct of this layout.
SizeOf(layout) == SumTo(layout, Len(layout))

\* Field k of the struct whose bytes are bs.
Field(bs, layout, k) ==
    SubSeq(bs, SumTo(layout, k - 1) + 1, SumTo(layout, k))

dsdChunkHeader == <<68, 83, 68, 32>>       \* "DSD "
fmtChunkHeader == <<102, 109, 116, 32>>    \* "fmt "
dataChunkHeader == <<100, 97, 116, 97>>    \* "data"

dsdChunkSize == 28
fmtChunkSize == 52
dataChunkSize == 12

fmtVersion == 1
fmtIdentifier == 0
fmtBlockSize == 4096
fmtReserved == 0

\* The keys of the map fmtChannelType.
fmtChannelType == 1..7

\* The map fmtChannelOrder as the package declares it.
fmtChannelOrder ==
    [t \in 1..7 |->
        CASE t = 1 -> <<Center>>
          [] t = 2 -> <<FrontLeft, FrontRight>>
          [] t = 3 -> <<FrontLeft, FrontRight, Center>>
          [] t = 4 -> <<FrontLeft, FrontRight, BackLeft, BackRight>>
          [] t = 5 -> <<FrontLeft, FrontRight, Center, LowFrequency>>
          [] t = 6 -> <<FrontLeft, FrontRight, Center, BackLeft, BackRight>>
          [] t = 7 -> <<FrontLeft, FrontRight, Center, LowFrequency,
                        BackLeft, BackRight>>]

\* The keys of the map fmtChannelNum.
fmtChannelNum == 1..6

\* The keys of the map fmtSamplingFrequency.
fmtSamplingFrequency == {2822400, 5644800, 11289600, 22579200}

\* The keys of the map fmtBitsPerSample.
fmtBitsPerSample == {1, 8}

(***************************************************************************)
(* The decoder.                                                            *)
(***************************************************************************)
\* A header check that knows its own tag only.  C4 must tell it from
\* dsdHeaderCheck.
dsdHeaderCheckTwoWay(header) ==
    IF header = dsdChunkHeader THEN "nil" ELSE "dsd: bad chunk header"

\* The chunk-header switch of readDSDChunk.
dsdHeaderCheck(header) ==
    IF header = dsdChunkHeader THEN "nil"
    ELSE IF header = fmtChunkHeader
         THEN "dsd: expected DSD chunk but found fmt chunk"
    ELSE IF header = dataChunkHeader
         THEN "dsd: expected DSD chunk but found data chunk"
    ELSE "dsd: bad chunk header"

\* A pointer check that lets the pointer be the offset 92 and the total file
\* size.  C5 must tell it from dsdPointerCheck.
dsdPointerCheckInclusive(totalFileSize, metadataPointer) ==
    IF metadataPointer # 0
       /\ (metadataPointer > totalFileSize
           \/ metadataPointer < dsdChunkSize + fmtChunkSize + dataChunkSize)
    THEN "dsd: bad pointer to metadata chunk"
    ELSE "nil"

\* The pointer-to-metadata check of readDSDChunk.
dsdPointerCheck(totalFileSize, metadataPointer) ==
    IF metadataPointer # 0
       /\ (metadataPointer >= totalFileSize
           \/ metadataPointer <= dsdChunkSize + fmtChunkSize + dataChunkSize)
    THEN "dsd: bad pointer to metadata chunk"
    ELSE "nil"

\* readDSDChunk on the source r with the decoder dd: the error returned, the
\* source left and the decoder afterwards.
readDSDChunk(r, dd) ==
    LET rd == ReadFull(r, SizeOf(DsdChunk)) IN
    IF rd.err # "nil" THEN [err |-> rd.err, reader |-> rd.rest, d |-> dd]
    ELSE
    LET chunk == BExpand(rd.data)
        d1 == [dd EXCEPT !.dsd = chunk]
        header == Field(chunk, DsdChunk, 1)
        size == Uint(Field(chunk, DsdChunk, 2))
        totalFileSize == Uint(Field(chunk, DsdChunk, 3))
        metadataPointer == Uint(Field(chunk, DsdChunk, 4))
        stop == [err |-> "nil", reader |-> rd.rest, d |-> d1]
    IN  IF dsdHeaderCheck(header) # "nil" THEN [stop EXCEPT !.err = dsdHeaderCheck(header)]
        ELSE IF size # dsdChunkSize THEN [stop EXCEPT !.err = "dsd: bad chunk size"]
        ELSE IF totalFileSize < dsdChunkSize + fmtChunkSize + dataChunkSize
             THEN [stop EXCEPT !.err = "dsd: bad total file size"]
        ELSE IF dsdPointerCheck(totalFileSize, metadataPointer) # "nil"
             THEN [stop EXCEPT !.err = dsdPointerCheck(totalFileSize, metadataPointer)]
        ELSE [err |-> "nil", reader |-> rd.rest,
              d |-> IF metadataPointer # 0
                    THEN [d1 EXCEPT !.audio.Metadata =
                                BZeros(totalFileSize - metadataPointer)]
                    ELSE d1]

\* The chunk-header switch of readFmtChunk.
fmtHeaderCheck(header) ==
    IF header = fmtChunkHeader THEN "nil"
    ELSE IF header = dsdChunkHeader
         THEN "fmt: expected fmt chunk but found DSD chunk"
    ELSE IF header = dataChunkHeader
         THEN "fmt: expected fmt chunk but found data chunk"
    ELSE "fmt: bad chunk header"

\* The length of the sample buffer readFmtChunk allocates, computed in
\* uint64 from the uint64 sample count.
fmtSampleLength(sampleCount, bitsPerSample, blockSize, channelNum) ==
    LET l1 == U64Div(sampleCount, 8 \div bitsPerSample)
        l2 == U64Add(l1, blockSize - U64Mod(l1, blockSize))
    IN  U64Mul(l2, channelNum)

\* A channel check without the comparison of channel num with the channel
\* order.  C8 must tell it from fmtChannelCheck.
fmtChannelCheckNoMismatch(channelType, channelNum) ==
    IF channelType \notin fmtChannelType THEN "fmt: bad channel type"
    ELSE IF channelNum \notin fmtChannelNum THEN "fmt: bad channel num"
    ELSE "nil"

\* The channel type and channel num checks of readFmtChunk.
fmtChannelCheck(channelType, channelNum) ==
    IF channelType \notin fmtChannelType THEN "fmt: bad channel type"
    ELSE IF channelNum \notin fmtChannelNum THEN "fmt: bad channel num"
    ELSE IF channelNum # Len(orders[channelType])
         THEN "fmt: mismatch between channel type and channel num"
    ELSE "nil"

\* A rate check without the sampling frequency.  C9 must tell it from
\* fmtRateCheck.
fmtRateCheckAnyFrequency(samplingFrequency, bitsPerSample) ==
    IF bitsPerSample \notin fmtBitsPerSample
    THEN "fmt: bad bits per sample"
    ELSE "nil"

\* The sampling frequency and bits per sample checks of readFmtChunk.
fmtRateCheck(samplingFrequency, bitsPerSample) ==
    IF samplingFrequency \notin fmtSamplingFrequency
    THEN "fmt: bad sampling frequency"
    ELSE IF bitsPerSample \notin fmtBitsPerSample
         THEN "fmt: bad bits per sample"
    ELSE "nil"

\* The size, version and id checks of readFmtChunk.
fmtFixedCheck(size, formatVersion, formatId) ==
    IF size # fmtChunkSize THEN "fmt: bad chunk size"
    ELSE IF formatVersion # fmtVersion THEN "fmt: bad format version"
    ELSE IF formatId # fmtIdentifier THEN "fmt: bad format id"
    ELSE "nil"

\* The block size and reserved checks of readFmtChunk.
fmtTailCheck(blockSize, reserved) ==
    IF blockSize # fmtBlockSize THEN "fmt: bad block size"
    ELSE IF reserved # fmtReserved THEN "fmt: bad reserved bytes"
    ELSE "nil"

readFmtChunk(r, dd) ==
    LET rd == ReadFull(r, SizeOf(FmtChunk)) IN
    IF rd.err # "nil" THEN [err |-> rd.err, reader |-> rd.rest, d |-> dd]
    ELSE
    LET chunk == BExpand(rd.data)
        d1 == [dd EXCEPT !.fmt = chunk]
        header == Field(chunk, FmtChunk, 1)
        size == Uint(Field(chunk, FmtChunk, 2))
        formatVersion == Uint(Field(chunk, FmtChunk, 3))
        formatId == Uint(Field(chunk, FmtChunk, 4))
        channelType == Uint(Field(chunk, FmtChunk, 5))
        channelNum == Uint(Field(chunk, FmtChunk, 6))
        samplingFrequency == Uint(Field(chunk, FmtChunk, 7))
        bitsPerSample == Uint(Field(chunk, FmtChunk, 8))
        sampleCount == U64(Field(chunk, FmtChunk, 9))
        blockSize == Uint(Field(chunk, FmtChunk, 10))
        reserved == Uint(Field(chunk, FmtChunk, 11))
        length == fmtSampleLength(sampleCount, bitsPerSample, blockSize,
                                  channelNum)
        stop == [err |-> "nil", reader |-> rd.rest, d |-> d1]
    IN  IF fmtHeaderCheck(header) # "nil" THEN [stop EXCEPT !.err = fmtHeaderCheck(header)]
        ELSE IF fmtFixedCheck(size, formatVersion, formatId) # "nil"
             THEN [stop EXCEPT !.err = fmtFixedCheck(size, formatVersion, formatId)]
        ELSE IF fmtChannelCheck(channelType, channelNum) # "nil"
             THEN [stop EXCEPT !.err = fmtChannelCheck(channelType, channelNum)]
        ELSE IF fmtRateCheck(samplingFrequency, bitsPerSample) # "nil"
             THEN [stop EXCEPT !.err = fmtRateCheck(samplingFrequency, bitsPerSample)]
        ELSE IF fmtTailCheck(blockSize, reserved) # "nil"
             THEN [stop EXCEPT !.err = fmtTailCheck(blockSize, reserved)]
        ELSE LET d2 == [d1 EXCEPT
                          !.audio.Encoding = DSD,
                          !.audio.NumChannels = channelNum,
                          !.audio.ChannelOrder = orders[channelType],
                          !.audio.SamplingFrequency = samplingFrequency,
                          !.audio.BitsPerSample = bitsPerSample,
                          !.audio.BlockSize = blockSize]
             IN  IF ~U64Fits(length)
                 THEN [err |-> "panic: makeslice: len out of range",
                       reader |-> rd.rest, d |-> d2]
                 ELSE [err |-> "nil", reader |-> rd.rest,
                       d |-> [d2 EXCEPT !.audio.EncodedSamples =
                                           BZeros(U64Int(length))]]

\* The chunk-header switch of readDataChunk.
dataHeaderCheck(header) ==
    IF header = dataChunkHeader THEN "nil"
    ELSE IF header = dsdChunkHeader
         THEN "data: expected data chunk but found DSD chunk"
    ELSE IF header = fmtChunkHeader
         THEN "data: expected data chunk but found fmt chunk"
    ELSE "data: bad chunk header"

\* A size check that takes any size at least that of the header and the
\* samples.  C7 must tell it from dataSizeCheck.
dataSizeCheckAtLeast(size, samples) ==
    IF size < dataChunkSize + BLen(samples) THEN "data: bad chunk size"
    ELSE "nil"

\* The chunk-size check of readDataChunk against the allocated buffer.
dataSizeCheck(size, samples) ==
    IF size # dataChunkSize + BLen(samples) THEN "data: bad chunk size"
    ELSE "nil"

\* A data reader that consumes the sample bytes and leaves the buffer as the
\* fmt reader allocated it.  C11 must tell it from readDataChunk.
readDataChunkDiscard(r, dd) ==
    LET rd == ReadFull(r, SizeOf(DataChunk) + BLen(dd.audio.EncodedSamples)) IN
    [err |-> rd.err, reader |-> rd.rest, d |-> dd]

readDataChunk(r, dd) ==
    LET rd == ReadFull(r, SizeOf(DataChunk)) IN
    IF rd.err # "nil" THEN [err |-> rd.err, reader |-> rd.rest, d |-> dd]
    ELSE
    LET chunk == BExpand(rd.data)
        d1 == [dd EXCEPT !.data = chunk]
        header == Field(chunk, DataChunk, 1)
        size == Uint(Field(chunk, DataChunk, 2))
        stop == [err |-> "nil", reader |-> rd.rest, d |-> d1]
    IN  IF dataHeaderCheck(header) # "nil" THEN [stop EXCEPT !.err = dataHeaderCheck(header)]
        ELSE IF dataSizeCheck(size, d1.audio.EncodedSamples) # "nil"
             THEN [stop EXCEPT !.err = dataSizeCheck(size, d1.audio.EncodedSamples)]
        ELSE LET rs == ReadFull(rd.rest, BLen(d1.audio.EncodedSamples)) IN
             IF rs.err # "nil"
             THEN [err |-> rs.err, reader |-> rs.rest, d |-> d1]
             ELSE [err |-> "nil", reader |-> rs.rest,
                   d |-> [d1 EXCEPT !.audio.EncodedSamples = rs.data]]

\* The check of readMetadataChunk that the metadata is not another chunk.
\* Slicing Metadata[:4] beyond the capacity of the buffer panics.
metadataHeaderCheck(metadata) ==
    IF BLen(metadata) < 4 THEN "panic: slice bounds out of range"
    ELSE LET header == BExpand(BTake(metadata, 4)) IN
         IF header = dsdChunkHeader
         THEN "metadata: expected metadata chunk but found DSD chunk"
         ELSE IF header = fmtChunkHeader
              THEN "metadata: expected metadata chunk but found fmt chunk"
         ELSE IF header = dataChunkHeader
              THEN "metadata: expected metadata chunk but found data chunk"
         ELSE "nil"

readMetadataChunk(r, dd) ==
    LET rm == ReadFull(r, BLen(dd.audio.Metadata)) IN
    IF rm.err # "nil" THEN [err |-> rm.err, reader |-> rm.rest, d |-> dd]
    ELSE [err |-> metadataHeaderCheck(rm.data), reader |-> rm.rest,
          d |-> [dd EXCEPT !.audio.Metadata = rm.data]]

(***************************************************************************)
(* The encoder.                                                            *)
(***************************************************************************)
\* The run-time panics of the codec.
Panics ==
    {"panic: slice bounds out of range",
     "panic: integer divide by zero",
     "panic: makeslice: cap out of range",
     "panic: makeslice: len out of range",
     "panic: nil pointer dereference"}

\* A call of e.logger.Print or Printf; logNil says that Encode was given a nil
\* logTo, which log.New keeps as the logger's output.
logPrint(logNil) == IF logNil THEN "panic: nil pointer dereference" ELSE "nil"

\* binary.Write of the bytes bs to the sink holding w; sinkFails says that the
\* sink returns an error from this Write (and takes none of the bytes).
binaryWrite(w, bs, sinkFails) ==
    IF sinkFails THEN [err |-> "write error", writer |-> w]
    ELSE [err |-> "nil", writer |-> BCat(w, BFromSeq(bs))]

\* The padding step of encode on the Audio au.
encodePad(au, logNil) ==
    IF au.BlockSize = 0
    THEN [err |-> "panic: integer divide by zero", a |-> au]
    ELSE LET remainder == BLen(au.EncodedSamples) % au.BlockSize IN
         IF remainder > 0
         THEN IF logPrint(logNil) # "nil"
              THEN [err |-> logPrint(logNil), a |-> au]
              \* make([]byte, remainder, 0): the length exceeds the capacity
              ELSE [err |-> "panic: makeslice: cap out of range", a |-> au]
         ELSE [err |-> "nil", a |-> au]

\* The total file size and the pointer to metadata writeDSDChunk computes.
dsdTotalFileSize(au) ==
    dsdChunkSize + fmtChunkSize + dataChunkSize
    + BLen(au.EncodedSamples) + BLen(au.Metadata)

\* A pointer to metadata that is the end of the samples also when there is
\* no metadata.  C16 must tell it from dsdMetadataPointer.
dsdMetadataPointerAlways(au) == dsdTotalFileSize(au) - BLen(au.Metadata)

dsdMetadataPointer(au) ==
    IF BLen(au.Metadata) > 0
    THEN dsdTotalFileSize(au) - BLen(au.Metadata)
    ELSE 0

writeDSDChunk(au, ee, w, logNil, sinkFails) ==
    LET chunk == dsdChunkHeader
                 \o PutUint(dsdChunkSize, 8)
                 \o PutUint(dsdTotalFileSize(au), 8)
                 \o PutUint(dsdMetadataPointer(au), 8)
        e1 == [ee EXCEPT !.dsd = chunk]
    IN  IF logPrint(logNil) # "nil"
        THEN [err |-> logPrint(logNil), e |-> e1, writer |-> w, wrote |-> FALSE]
        ELSE LET wr == binaryWrite(w, chunk, sinkFails) IN
             [err |-> wr.err, e |-> e1, writer |-> wr.writer, wrote |-> TRUE]

\* A resolution of the channel type by the number of channels alone.  C20
\* must tell it from fmtChannelTypeOf.
fmtChannelTypeByLength(order) ==
    IF \E t \in DOMAIN fmtChannelOrder : Len(fmtChannelOrder[t]) = Len(order)
    THEN CHOOSE t \in DOMAIN fmtChannelOrder :
             Len(fmtChannelOrder[t]) = Len(order)
    ELSE 0

\* The channel type writeFmtChunk resolves from a channel order: the key of
\* fmtChannelOrder whose value is deeply equal to it, 0 when there is none
\* (the values of the table are distinct, so at most one key matches).
fmtChannelTypeOf(order) ==
    IF \E t \in DOMAIN orders : orders[t] = order
    THEN CHOOSE t \in DOMAIN orders : orders[t] = order
    ELSE 0

\* A validation without the bits per sample.  C21 must tell it from
\* fmtWriteCheck.
fmtWriteCheckAnyBits(au) ==
    IF fmtChannelTypeOf(au.ChannelOrder) = 0
    THEN "fmt: unsupported channel ordering"
    ELSE IF au.NumChannels > 1 /\ au.NumChannels # Len(au.ChannelOrder)
         THEN "fmt: mismatch between num channels and channel order"
    ELSE IF au.SamplingFrequency \notin fmtSamplingFrequency
         THEN "fmt: unsupported sampling frequency"
    ELSE "nil"

\* The validation of writeFmtChunk, in the order of the code.
fmtWriteCheck(au) ==
    IF fmtChannelTypeOf(au.ChannelOrder) = 0
    THEN "fmt: unsupported channel ordering"
    ELSE IF au.NumChannels > 1 /\ au.NumChannels # Len(au.ChannelOrder)
         THEN "fmt: mismatch between num channels and channel order"
    ELSE IF au.SamplingFrequency \notin fmtSamplingFrequency
         THEN "fmt: unsupported sampling frequency"
    ELSE IF au.BitsPerSample \notin fmtBitsPerSample
         THEN "fmt: unsupported bits per sample"
    ELSE "nil"

\* The bytes of the fmt chunk writeFmtChunk fills in: SampleCount, BlockSize
\* and Reserved are never assigned and keep the zero value of the struct.
fmtChunkBytes(au) ==
    fmtChunkHeader
    \o PutUint(fmtChunkSize, 8)
    \o PutUint(fmtVersion, 4)
    \o PutUint(fmtIdentifier, 4)
    \o PutUint(fmtChannelTypeOf(au.ChannelOrder), 4)
    \o PutUint(au.NumChannels, 4)
    \o PutUint(au.SamplingFrequency, 4)
    \o PutUint(au.BitsPerSample, 4)
    \o PutUint(0, 8)
    \o PutUint(0, 4)
    \o PutUint(0, 4)

writeFmtChunk(au, ee, w, logNil, sinkFails) ==
    IF fmtWriteCheck(au) # "nil"
    THEN [err |-> fmtWriteCheck(au), e |-> ee, writer |-> w, wrote |-> FALSE]
    ELSE LET e1 == [ee EXCEPT !.fmt = fmtChunkBytes(au)] IN
         IF logPrint(logNil) # "nil"
         THEN [err |-> logPrint(logNil), e |-> e1, writer |-> w, wrote |-> FALSE]
         ELSE LET wr == binaryWrite(w, fmtChunkBytes(au), sinkFails) IN
              [err |-> wr.err, e |-> e1, writer |-> wr.writer, wrote |-> TRUE]

(***************************************************************************)
(* Input streams.  A stream is described by the values of its fields, as   *)
(* the tables of the package's tests describe theirs (a valid chunk with   *)
(* values patched in), and turned into bytes by StreamBytes.               *)
(***************************************************************************)
id3Header == <<73, 68, 51, 3>>             \* "ID3" 0x03

\* Chunk tags met in the tests: the three known ones, an ID3v2 tag, tags of
\* the wrong case and tags with a bad byte.
TestHeaders ==
    {dsdChunkHeader, fmtChunkHeader, dataChunkHeader, id3Header,
     <<100, 115, 100, 32>>, <<70, 77, 84, 32>>, <<68, 65, 84, 65>>,
     <<68, 83, 68, 120>>, <<102, 109, 116, 120>>, <<115, 97, 116, 97>>,
     <<0, 0, 0, 0>>}

\* n bytes of sample data: not all equal, so that their order shows.
SampleBytes(n) ==
    IF n < 3 THEN BRun(n, 17)
    ELSE BCat(BRun(1, 17), BCat(BRun(n - 2, 34), BRun(1, 51)))

\* n bytes of metadata starting with the bytes of header.
MetadataBytes(header, n) ==
    BTake(BCat(BFromSeq(header), BRun(IF n > 4 THEN n - 4 ELSE 0, 7)), n)

\* A well-formed DSD stream file: channel type t, b bits per sample, sample
\* count sc, k blocks of sample data per channel and m bytes of metadata.
\* The sample count field holds sc in its 3 lowest bytes, before the 5 bytes
\* sampleCountHigh.
ValidStream(t, b, sc, k, m) ==
    LET n == k * fmtBlockSize * Len(fmtChannelOrder[t])
        total == dsdChunkSize + fmtChunkSize + dataChunkSize + n + m
    IN  [layout |-> <<"dsd", "fmt", "data", "meta">>,
         dsdHeader |-> dsdChunkHeader, dsdSize |-> dsdChunkSize,
         totalFileSize |-> total,
         metadataPointer |-> IF m = 0 THEN 0 ELSE total - m,
         fmtHeader |-> fmtChunkHeader, fmtSize |-> fmtChunkSize,
         version |-> fmtVersion, identifier |-> fmtIdentifier,
         channelType |-> t, channelNum |-> Len(fmtChannelOrder[t]),
         samplingFrequency |-> 2822400, bitsPerSample |-> b,
         sampleCount |-> sc, sampleCountHigh |-> <<0, 0, 0, 0, 0>>,
         blockSize |-> fmtBlockSize,
         reserved |-> fmtReserved,
         dataHeader |-> dataChunkHeader, dataSize |-> dataChunkSize + n,
         samplesLen |-> n,
         metadataHeader |-> id3Header, metadataLen |-> m,
         cut |-> total]

ChunkBytes(in, name) ==
    CASE name = "dsd" ->
           BFromSeq(in.dsdHeader \o PutUint(in.dsdSize, 8)
                    \o PutUint(in.totalFileSize, 8)
                    \o PutUint(in.metadataPointer, 8))
      [] name = "fmt" ->
           BFromSeq(in.fmtHeader \o PutUint(in.fmtSize, 8)
                    \o PutUint(in.version, 4) \o PutUint(in.identifier, 4)
                    \o PutUint(in.channelType, 4) \o PutUint(in.channelNum, 4)
                    \o PutUint(in.samplingFrequency, 4)
                    \o PutUint(in.bitsPerSample, 4)
                    \o PutUint(in.sampleCount, 3) \o in.sampleCountHigh
                    \o PutUint(in.blockSize, 4) \o PutUint(in.reserved, 4))
      [] name = "data" ->
           BCat(BFromSeq(in.dataHeader \o PutUint(in.dataSize, 8)),
                SampleBytes(in.samplesLen))
      [] name = "meta" -> MetadataBytes(in.metadataHeader, in.metadataLen)

RECURSIVE LayoutBytes(_, _)
LayoutBytes(in, layout) ==
    IF layout = <<>> THEN <<>>
    ELSE BCat(ChunkBytes(in, Head(layout)), LayoutBytes(in, Tail(layout)))

\* The bytes of the stream in: its chunks in the order of its layout, cut
\* after in.cut bytes.
StreamBytes(in) == BTake(LayoutBytes(in, in.layout), in.cut)

\* Sample counts around the block boundaries, for 1 and for 8 bits per sample.
SampleCounts ==
    {0, 1, 7, 8, 9}
    \cup {k * fmtBlockSize * m + dl :
            k \in 1..MaxBlocks, m \in {1, 8}, dl \in {-1, 0, 1}}

\* Well-formed streams of every channel type, bit depth and sample count.
ValidStreams ==
    {ValidStream(t, b, sc, k, m) :
        t \in 1..7, b \in {1, 8}, sc \in SampleCounts,
        k \in 1..MaxBlocks, m \in {0, MaxMetaLen}}

\* Sample counts near the end of uint64: 2^64 - 4096 and 2^63.
WideSampleCounts ==
    {[low |-> 16773120, high |-> <<255, 255, 255, 255, 255>>],
     [low |-> 0, high |-> <<0, 0, 0, 0, 128>>]}

\* Streams with these sample counts, without sample data and with one block
\* per channel.
WideStreams ==
    {[ValidStream(t, b, w.low, k, m) EXCEPT !.sampleCountHigh = w.high] :
        t \in {1, 2}, b \in {1, 8}, w \in WideSampleCounts, k \in 0..1,
        m \in {0, MaxMetaLen}}

\* The streams the tables patch: stereo, 1 bit, one block, without and with
\* metadata of 1..MaxMetaLen bytes.
PatchedStreams == {ValidStream(2, 1, 1, 1, m) : m \in 0..MaxMetaLen}

\* As dsdChunkTests: header, size, total file size and pointer to metadata.
DsdStreams ==
    UNION {
      {[v EXCEPT !.dsdHeader = h] : h \in TestHeaders}
      \cup {[v EXCEPT !.dsdSize = x] : x \in {0, 27, 28, 29}}
      \cup {[v EXCEPT !.totalFileSize = tt, !.metadataPointer = mp] :
              tt \in {0, 91, 92, 93, 94, 100, v.totalFileSize - 1,
                      v.totalFileSize, v.totalFileSize + 1},
              mp \in {0, 1, 91, 92, 93, 94, 99, 100, 101,
                      v.metadataPointer - 1, v.metadataPointer + 1,
                      v.totalFileSize - 1, v.totalFileSize,
                      v.totalFileSize + 1} \ {-1}}
      : v \in {ValidStream(2, 1, 1, 1, m) : m \in {0, MaxMetaLen}}}

\* As fmtChunkTests: each field of the fmt chunk patched.
FmtStreams ==
    LET v == ValidStream(2, 1, 1, 1, 0) IN
    {[v EXCEPT !.fmtHeader = h] : h \in TestHeaders}
    \cup {[v EXCEPT !.fmtSize = x] : x \in {0, 51, 52, 53}}
    \cup {[v EXCEPT !.version = x] : x \in {0, 1, 2}}
    \cup {[v EXCEPT !.identifier = x] : x \in {0, 1}}
    \cup {[v EXCEPT !.channelType = t, !.channelNum = n] :
            t \in 0..8, n \in 0..7}
    \cup {[v EXCEPT !.samplingFrequency = f, !.bitsPerSample = b] :
            f \in fmtSamplingFrequency \cup {0, 44100, 2822401},
            b \in {0, 1, 2, 7, 8, 9, 16}}
    \cup {[v EXCEPT !.blockSize = x] : x \in {0, 1024, 4095, 4096, 4097}}
    \cup {[v EXCEPT !.reserved = x] : x \in {0, 1, 67305985}}

\* As dataChunkTests: header and size of the data chunk, and the sample data
\* present.
DataStreams ==
    UNION {
      {[v EXCEPT !.dataHeader = h] : h \in TestHeaders}
      \cup {[v EXCEPT !.dataSize = v.dataSize + dl] : dl \in {-1, 0, 1}}
      \cup {[v EXCEPT !.dataSize = x] : x \in {0, 11, 12, 13}}
      \cup {[v EXCEPT !.samplesLen = v.samplesLen + dl,
                      !.cut = v.cut + dl] : dl \in {-1, 0, 1}}
      : v \in {ValidStream(2, 1, 1, 1, m) : m \in {0, MaxMetaLen}}}

\* As metadataChunkTests: the first bytes of the metadata.
MetadataStreams ==
    {[v EXCEPT !.metadataHeader = h] : v \in PatchedStreams, h \in TestHeaders}

\* As readerTests: chunks out of order, missing and repeated.
ReaderLayouts ==
    {<<"dsd", "fmt", "data", "meta">>,
     <<"fmt", "dsd", "data", "meta">>, <<"data", "dsd", "fmt", "meta">>,
     <<"dsd", "data", "fmt", "meta">>,
     <<"fmt", "data", "meta">>, <<"dsd", "data", "meta">>,
     <<"dsd", "fmt", "meta">>, <<"dsd", "fmt", "data">>,
     <<"dsd", "dsd", "fmt", "data", "meta">>,
     <<"dsd", "fmt", "fmt", "data", "meta">>,
     <<"dsd", "fmt", "data", "data", "meta">>,
     <<"meta", "dsd", "fmt", "data">>}

ReaderStreams ==
    {[v EXCEPT !.layout = l, !.cut = 4 * v.cut] :
        v \in PatchedStreams, l \in ReaderLayouts}

\* Streams that end early: inside or at the start of each chunk.
CutsOf(v) ==
    {x \in {0, 1, 4, 27, 28, 29, 32, 79, 80, 81, 84, 91, 92, 93,
            92 + fmtBlockSize, v.totalFileSize - v.metadataLen - 1,
            v.totalFileSize - v.metadataLen,
            v.totalFileSize - v.metadataLen + 1,
            v.totalFileSize - 1} : x <= v.totalFileSize}

TruncatedStreams ==
    UNION {{[v EXCEPT !.cut = c] : c \in CutsOf(v)} : v \in PatchedStreams}

Streams ==
    ValidStreams \cup WideStreams \cup PatchedStreams \cup DsdStreams
    \cup FmtStreams
    \cup DataStreams \cup MetadataStreams \cup ReaderStreams
    \cup TruncatedStreams

(***************************************************************************)
(* Input Audio values for Encode.                                          *)
(***************************************************************************)
\* An Audio with the canonical channel order of channel type t, n sample
\* bytes and m bytes of metadata.
ValidAudio(t, f, b, n, m) ==
    [Encoding |-> DSD, NumChannels |-> Len(fmtChannelOrder[t]),
     ChannelOrder |-> fmtChannelOrder[t],
     SamplingFrequency |-> f, BitsPerSample |-> b,
     BlockSize |-> fmtBlockSize,
     EncodedSamples |-> SampleBytes(n),
     Metadata |-> MetadataBytes(id3Header, m)]

ValidAudios ==
    {ValidAudio(t, 2822400, 1, k * fmtBlockSize * Len(fmtChannelOrder[t]), m) :
        t \in 1..7, k \in 0..MaxBlocks, m \in {0, 1, 4, MaxMetaLen}}
    \cup {ValidAudio(2, f, b, 2 * fmtBlockSize, 0) :
            f \in fmtSamplingFrequency, b \in fmtBitsPerSample}

\* Channel orders that are no value of fmtChannelOrder.
OtherOrders ==
    {<<>>, <<FrontLeft>>, <<FrontRight, FrontLeft>>,
     <<FrontLeft, FrontRight, LowFrequency>>, <<Center, Center>>}

PatchedAudios ==
    LET v == ValidAudio(2, 2822400, 1, 2 * fmtBlockSize, 0) IN
    {[v EXCEPT !.Encoding = DST],
     [v EXCEPT !.Encoding = DST, !.EncodedSamples = SampleBytes(4097)]}
    \cup {[v EXCEPT !.ChannelOrder = o] : o \in OtherOrders}
    \cup {[v EXCEPT !.ChannelOrder = fmtChannelOrder[t], !.NumChannels = n] :
            t \in 1..7, n \in 0..7}
    \cup {[v EXCEPT !.SamplingFrequency = f, !.BitsPerSample = b] :
            f \in fmtSamplingFrequency \cup {0, 44100},
            b \in {0, 1, 8, 16}}
    \cup {[v EXCEPT !.BlockSize = x] : x \in {0, 1024, 4096}}
    \cup {[v EXCEPT !.EncodedSamples = SampleBytes(n)] :
            n \in {0, 1, 4095, 4096, 4097, 8191, 8193}}

Audios == ValidAudios \cup PatchedAudios

(***************************************************************************)
(* The state machine: one call of Decode, or one call of Encode followed   *)
(* by a call of Decode on the bytes Encode wrote.                          *)
(***************************************************************************)
ZeroBytes(layout) == [i \in 1..SizeOf(layout) |-> 0]

\* var d decoder / var e encoder: the zero values.
ZeroDecoder ==
    [audio |-> ZeroAudio, dsd |-> ZeroBytes(DsdChunk),
     fmt |-> ZeroBytes(FmtChunk), data |-> ZeroBytes(DataChunk)]

ZeroEncoder == [dsd |-> ZeroBytes(DsdChunk), fmt |-> ZeroBytes(FmtChunk)]

NoReturn == [returned |-> FALSE, audioNil |-> TRUE, audio |-> ZeroAudio,
             err |-> "nil"]

Init ==
    /\ pc = "idle"
    /\ source = <<>>
    /\ reader = <<>>
    /\ nread = 0
    /\ logTo = "nil"
    /\ d = ZeroDecoder
    /\ err = "nil"
    /\ ret = NoReturn
    /\ steps = <<>>
    /\ a = ZeroAudio
    /\ writer = <<>>
    /\ nwrites = 0
    /\ failAt = 0
    /\ e = ZeroEncoder
    /\ eret = "none"
    /\ orders = fmtChannelOrder

\* Decode(r, logTo) up to the first chunk reader: a nil logTo becomes
\* ioutil.Discard, and decode allocates a fresh Audio.
DecodeEnter(bytes, lg) ==
    /\ source' = bytes
    /\ reader' = bytes
    /\ nread' = 0
    /\ logTo' = IF lg = "nil" THEN "discard" ELSE lg
    /\ d' = ZeroDecoder
    /\ err' = "nil"
    /\ ret' = NoReturn
    /\ steps' = <<>>
    /\ pc' = "readDSD"
    /\ UNCHANGED orders

DecodeCall ==
    /\ pc = "idle"
    /\ \E in \in Streams, lg \in {"nil", "sink"} :
          DecodeEnter(StreamBytes(in), lg)
    /\ UNCHANGED <<a, writer, nwrites, failAt, e, eret>>

\* A decode that goes on to the next reader after a reader failed.  C2 must
\* tell it from DecodeStep.
DecodeStepContinue(name, r, next) ==
    /\ reader' = r.reader
    /\ nread' = nread + (BLen(reader) - BLen(r.reader))
    /\ d' = r.d
    /\ err' = r.err
    /\ steps' = Append(steps, name)
    /\ pc' = IF r.err \in Panics THEN "panic" ELSE next
    /\ UNCHANGED <<orders, source, logTo, ret, a, writer, nwrites, failAt, e, eret>>

\* One chunk reader of decode, r its outcome: decode goes on to the step
\* next when r.err is nil and returns r.err otherwise.
DecodeStep(name, r, next) ==
    /\ reader' = r.reader
    /\ nread' = nread + (BLen(reader) - BLen(r.reader))
    /\ d' = r.d
    /\ err' = r.err
    /\ steps' = Append(steps, name)
    /\ pc' = IF r.err \in Panics THEN "panic"
             ELSE IF r.err # "nil" THEN "decodeRet"
             ELSE next
    /\ UNCHANGED <<orders, source, logTo, ret, a, writer, nwrites, failAt, e, eret>>

ReadDSDChunk ==
    /\ pc = "readDSD"
    /\ DecodeStep("readDSDChunk", readDSDChunk(reader, d), "readFmt")

ReadFmtChunk ==
    /\ pc = "readFmt"
    /\ DecodeStep("readFmtChunk", readFmtChunk(reader, d), "readData")

\* After the data chunk decode reads the metadata chunk only when the DSD
\* chunk made it allocate a metadata buffer.
ReadDataChunk ==
    /\ pc = "readData"
    /\ LET r == readDataChunk(reader, d) IN
       DecodeStep("readDataChunk", r,
                  IF BLen(r.d.audio.Metadata) > 0 THEN "readMetadata"
                  ELSE "decodeRet")

ReadMetadataChunk ==
    /\ pc = "readMetadata"
    /\ DecodeStep("readMetadataChunk", readMetadataChunk(reader, d),
                  "decodeRet")

\* A Decode that returns the Audio of the decoder whatever the error.  C3
\* must tell it from DecodeReturn.
DecodeReturnPartial ==
    /\ pc = "decodeRet"
    /\ ret' = [returned |-> TRUE, audioNil |-> FALSE, audio |-> d.audio,
               err |-> err]
    /\ pc' = "done"
    /\ UNCHANGED <<orders, source, reader, nread, logTo, d, err, steps,
                   a, writer, nwrites, failAt, e, eret>>

\* The return of Decode: nil and the error, or d.audio and nil.
DecodeReturn ==
    /\ pc = "decodeRet"
    /\ ret' = IF err # "nil"
              THEN [returned |-> TRUE, audioNil |-> TRUE,
                    audio |-> ZeroAudio, err |-> err]
              ELSE [returned |-> TRUE, audioNil |-> FALSE,
                    audio |-> d.audio, err |-> "nil"]
    /\ pc' = "done"
    /\ UNCHANGED <<orders, source, reader, nread, logTo, d, err, steps,
                   a, writer, nwrites, failAt, e, eret>>

\* An Encode that does not look at the encoding of the Audio.  C14 must tell
\* it from EncodeCall.
EncodeCallAnyEncoding ==
    /\ pc = "idle"
    /\ \E au \in Audios, lg \in {"nil", "sink"}, f \in 0..2 :
          /\ a' = au
          /\ logTo' = lg
          /\ failAt' = f
    /\ eret' = "none"
    /\ pc' = "pad"
    /\ writer' = <<>>
    /\ nwrites' = 0
    /\ e' = ZeroEncoder
    /\ err' = "nil"
    /\ steps' = <<>>
    /\ UNCHANGED <<orders, source, reader, nread, d, ret>>

\* Encode(a, w, logTo) up to the padding step of encode: an encoding other
\* than DSD is refused at once.  The sink fails at its f-th Write, if f > 0
\* (encode issues at most two).
EncodeCall ==
    /\ pc = "idle"
    /\ \E au \in Audios, lg \in {"nil", "sink"}, f \in 0..2 :
          /\ a' = au
          /\ logTo' = lg
          /\ failAt' = f
          /\ IF au.Encoding # DSD
             THEN eret' = "unsupported audio encoding" /\ pc' = "encDone"
             ELSE eret' = "none" /\ pc' = "pad"
    /\ writer' = <<>>
    /\ nwrites' = 0
    /\ e' = ZeroEncoder
    /\ err' = "nil"
    /\ steps' = <<>>
    /\ UNCHANGED <<orders, source, reader, nread, d, ret>>

EncodePad ==
    /\ pc = "pad"
    /\ LET r == encodePad(a, logTo = "nil") IN
          /\ a' = r.a
          /\ err' = r.err
          /\ pc' = IF r.err \in Panics THEN "panic" ELSE "writeDSD"
    /\ UNCHANGED <<orders, source, reader, nread, logTo, d, ret, steps,
                   writer, nwrites, failAt, e, eret>>

\* An encode that goes on to the next writer after a writer failed.  C30 must
\* tell it from EncodeStep.
EncodeStepContinue(name, r, next) ==
    /\ e' = r.e
    /\ writer' = r.writer
    /\ nwrites' = IF r.wrote THEN nwrites + 1 ELSE nwrites
    /\ err' = r.err
    /\ steps' = Append(steps, name)
    /\ pc' = IF r.err \in Panics THEN "panic" ELSE next
    /\ UNCHANGED <<orders, source, reader, nread, logTo, d, ret, a, failAt, eret>>

\* One chunk writer of encode, r its outcome.
EncodeStep(name, r, next) ==
    /\ e' = r.e
    /\ writer' = r.writer
    /\ nwrites' = IF r.wrote THEN nwrites + 1 ELSE nwrites
    /\ err' = r.err
    /\ steps' = Append(steps, name)
    /\ pc' = IF r.err \in Panics THEN "panic"
             ELSE IF r.err # "nil" THEN "encodeRet"
             ELSE next
    /\ UNCHANGED <<orders, source, reader, nread, logTo, d, ret, a, failAt, eret>>

WriteDSDChunk ==
    /\ pc = "writeDSD"
    /\ EncodeStep("writeDSDChunk",
                  writeDSDChunk(a, e, writer, logTo = "nil",
                                failAt = nwrites + 1),
                  "writeFmt")

WriteFmtChunk ==
    /\ pc = "writeFmt"
    /\ EncodeStep("writeFmtChunk",
                  writeFmtChunk(a, e, writer, logTo = "nil",
                                failAt = nwrites + 1),
                  "encodeRet")

\* The return of Encode: the error of encode, or nil.
EncodeReturn ==
    /\ pc = "encodeRet"
    /\ eret' = err
    /\ pc' = "encDone"
    /\ UNCHANGED <<orders, source, reader, nread, logTo, d, err, ret, steps,
                   a, writer, nwrites, failAt, e>>

\* Decode called on the bytes a successful Encode wrote.
DecodeWritten ==
    /\ pc = "encDone"
    /\ eret = "nil"
    /\ \E lg \in {"nil", "sink"} : DecodeEnter(writer, lg)
    /\ UNCHANGED <<a, writer, nwrites, failAt, e, eret>>

Next ==
    \/ DecodeCall
    \/ ReadDSDChunk
    \/ ReadFmtChunk
    \/ ReadDataChunk
    \/ ReadMetadataChunk
    \/ DecodeReturn
    \/ EncodeCall
    \/ EncodePad
    \/ WriteDSDChunk
    \/ WriteFmtChunk
    \/ EncodeReturn
    \/ DecodeWritten

Spec == Init /\ [][Next]_vars

(***************************************************************************)
(* Calls that follow one another in a process.  The Audio a successful     *)
(* Decode returned belongs to the caller, who may write to it.  Its        *)
(* ChannelOrder is the slice readFmtChunk took out of the map              *)
(* fmtChannelOrder, which shares its elements with the map.                *)
(***************************************************************************)
\* The caller overwrites the first element of the ChannelOrder of the Audio
\* it was returned, and is ready to make its next call.  One such write, to
\* a table nobody wrote to before, is followed.
CallerOverwrites ==
    /\ pc = "done"
    /\ ~ret.audioNil
    /\ orders = fmtChannelOrder
    /\ LET channelType == Uint(Field(d.fmt, FmtChunk, 5)) IN
       orders' = [orders EXCEPT ![channelType][1] = BackRight]
    /\ pc' = "idle"
    /\ source' = <<>>
    /\ reader' = <<>>
    /\ nread' = 0
    /\ logTo' = "nil"
    /\ d' = ZeroDecoder
    /\ err' = "nil"
    /\ ret' = NoReturn
    /\ steps' = <<>>
    /\ UNCHANGED <<a, writer, nwrites, failAt, e, eret>>

NextShared == Next \/ CallerOverwrites

SpecShared == Init /\ [][NextShared]_vars

(***************************************************************************)
(* Vocabulary of the properties.                                           *)
(***************************************************************************)
ReadErrors == {"EOF", "unexpected EOF"}

DecodeOrder ==
    <<"readDSDChunk", "readFmtChunk", "readDataChunk", "readMetadataChunk">>

\* A call of Decode is in progress or has returned.
Decoding ==
    pc \in {"readDSD", "readFmt", "readData", "readMetadata", "decodeRet",
            "done"}

\* The last chunk reader called was the k-th of decode, and it got the bytes
\* of its chunk header from the source.
AfterRead(k) ==
    /\ Decoding \/ pc = "panic"
    /\ Len(steps) = k
    /\ steps = SubSeq(DecodeOrder, 1, k)
    /\ nread >= (CASE k = 1 -> SizeOf(DsdChunk)
                   [] k = 2 -> SizeOf(DsdChunk) + SizeOf(FmtChunk)
                   [] k = 3 -> SizeOf(DsdChunk) + SizeOf(FmtChunk)
                               + SizeOf(DataChunk)
                   [] k = 4 -> 0)

\* The fields of the chunks the decoder holds.
DsdHeaderRead == Field(d.dsd, DsdChunk, 1)
DsdSizeRead == Uint(Field(d.dsd, DsdChunk, 2))
TotalFileSizeRead == Uint(Field(d.dsd, DsdChunk, 3))
MetadataPointerRead == Uint(Field(d.dsd, DsdChunk, 4))
FmtHeaderRead == Field(d.fmt, FmtChunk, 1)
FmtSizeRead == Uint(Field(d.fmt, FmtChunk, 2))
VersionRead == Uint(Field(d.fmt, FmtChunk, 3))
IdentifierRead == Uint(Field(d.fmt, FmtChunk, 4))
ChannelTypeRead == Uint(Field(d.fmt, FmtChunk, 5))
ChannelNumRead == Uint(Field(d.fmt, FmtChunk, 6))
SamplingFrequencyRead == Uint(Field(d.fmt, FmtChunk, 7))
BitsPerSampleRead == Uint(Field(d.fmt, FmtChunk, 8))
SampleCountRead == Uint(Field(d.fmt, FmtChunk, 9))
\* The sample count read is below 2^24 (its 5 highest bytes are 0): the
\* sample buffer it asks for is one that can be allocated.
SampleCountSmall == SubSeq(Field(d.fmt, FmtChunk, 9), 4, 8) = <<0, 0, 0, 0, 0>>
BlockSizeRead == Uint(Field(d.fmt, FmtChunk, 10))
ReservedRead == Uint(Field(d.fmt, FmtChunk, 11))
DataHeaderRead == Field(d.data, DataChunk, 1)
DataSizeRead == Uint(Field(d.data, DataChunk, 2))

\* The canonical channel orders, by channel type, as the format gives them.
CanonicalOrder(t) ==
    CASE t = 1 -> <<2>>
      [] t = 2 -> <<0, 1>>
      [] t = 3 -> <<0, 1, 2>>
      [] t = 4 -> <<0, 1, 4, 5>>
      [] t = 5 -> <<0, 1, 2, 3>>
      [] t = 6 -> <<0, 1, 2, 4, 5>>
      [] t = 7 -> <<0, 1, 2, 3, 4, 5>>

PermittedFrequencies == {2822400, 5644800, 11289600, 22579200}

\* A valid Audio value: uncompressed, a canonical channel order with the
\* matching channel count, permitted frequency and bit depth, block size 4096.
IsValidAudio(au) ==
    /\ au.Encoding = 0
    /\ \E t \in 1..7 : au.ChannelOrder = CanonicalOrder(t)
    /\ au.NumChannels = Len(au.ChannelOrder)
    /\ au.SamplingFrequency \in PermittedFrequencies
    /\ au.BitsPerSample \in {1, 8}
    /\ au.BlockSize = 4096

\* Decode has returned from a call made on the bytes Encode wrote.
RoundTripDone == pc = "done" /\ eret = "nil"

(***************************************************************************)
(* C1.  Round trip: for every valid Audio a, Decode applied to the bytes   *)
(* written by Encode(a) succeeds and returns an Audio whose encoding,      *)
(* channel count, channel order, sampling frequency, bits per sample,      *)
(* block size and sample bytes are those of a.                             *)
(***************************************************************************)
C1_RoundTrip ==
    (RoundTripDone /\ IsValidAudio(a)) =>
        /\ ret.err = "nil"
        /\ ~ret.audioNil
        /\ ret.audio.Encoding = a.Encoding
        /\ ret.audio.NumChannels = a.NumChannels
        /\ ret.audio.ChannelOrder = a.ChannelOrder
        /\ ret.audio.SamplingFrequency = a.SamplingFrequency
        /\ ret.audio.BitsPerSample = a.BitsPerSample
        /\ ret.audio.BlockSize = a.BlockSize
        /\ ret.audio.EncodedSamples = a.EncodedSamples

(***************************************************************************)
(* C2.  Decode calls the chunk readers in the order DSD, fmt, data,        *)
(* metadata; a reader is called only when every earlier one returned no    *)
(* error; once a reader has returned an error Decode returns that error    *)
(* as its next step, calling no reader again and reading no further byte.  *)
(***************************************************************************)
C2_OrderInv ==
    Decoding =>
        /\ Len(steps) <= 4
        /\ steps = SubSeq(DecodeOrder, 1, Len(steps))
        /\ pc \in {"readFmt", "readData", "readMetadata"} => err = "nil"
        /\ pc = "readDSD" => steps = <<>>
        /\ pc = "readFmt" => Len(steps) = 1
        /\ pc = "readData" => Len(steps) = 2
        /\ pc = "readMetadata" => Len(steps) = 3

C2_StopAtFirstFailure ==
    (Decoding /\ err # "nil") =>
        /\ pc \in {"decodeRet", "done"}
        /\ pc = "decodeRet" => (pc' = "done" /\ ret'.err = err)
        /\ reader' = reader
        /\ nread' = nread
        /\ steps' = steps

C2_FixedOrderStopAtFirstFailure ==
    [](C2_OrderInv) /\ [][C2_StopAtFirstFailure]_vars

\* Decode has returned the error of the fmt reader, with the data chunk and
\* what follows it left unread in the source.
C2_Witness ==
    /\ pc = "done"
    /\ steps = <<"readDSDChunk", "readFmtChunk">>
    /\ ret.err = "fmt: bad format version"
    /\ BLen(reader) > fmtBlockSize

(***************************************************************************)
(* C3.  Whenever a decode step fails, Decode returns the error together    *)
(* with a nil Audio; it returns a non-nil Audio only with a nil error,     *)
(* after the DSD, fmt and data readers (and the metadata reader, when the  *)
(* DSD chunk announced metadata) all returned no error.                    *)
(***************************************************************************)
C3_NoPartialResult ==
    /\ (pc = "done" /\ err # "nil") =>
          (ret.returned /\ ret.err = err /\ ret.audioNil)
    /\ ret.returned =>
          /\ ret.err # "nil" => ret.audioNil
          /\ ~ret.audioNil =>
                /\ ret.err = "nil"
                /\ err = "nil"
                /\ Len(steps) \in {3, 4}
                /\ steps = SubSeq(DecodeOrder, 1, Len(steps))
                /\ Len(steps) = 3 => BLen(d.audio.Metadata) = 0
                /\ ret.audio = d.audio

\* Decode failed in the data reader, after the fmt reader had filled in the
\* Audio of the decoder, and returned nil.
C3_Witness ==
    /\ pc = "done"
    /\ Len(steps) = 3
    /\ err = "data: bad chunk size"
    /\ d.audio.NumChannels = 2
    /\ BLen(d.audio.EncodedSamples) > 0
    /\ ret.audioNil

(***************************************************************************)
(* C4.  Each of the DSD, fmt and data readers compares the 4-byte tag of   *)
(* the chunk it read in three ways: its own tag passes the tag check; the  *)
(* tag of one of the other two chunk kinds gives the error "expected X     *)
(* chunk but found Y chunk", naming the kind found; any other tag gives    *)
(* the error "bad chunk header".                                           *)
(***************************************************************************)
C4_TagErrors(prefix, own) ==
    {prefix \o ": expected " \o own \o " chunk but found " \o y \o " chunk" :
        y \in {"DSD", "fmt", "data"}}
    \cup {prefix \o ": bad chunk header"}

C4_TagVerdict(header, prefix, own, ownTag) ==
    /\ header = ownTag => err \notin C4_TagErrors(prefix, own)
    /\ (header = <<68, 83, 68, 32>> /\ header # ownTag) =>
          err = prefix \o ": expected " \o own \o " chunk but found DSD chunk"
    /\ (header = <<102, 109, 116, 32>> /\ header # ownTag) =>
          err = prefix \o ": expected " \o own \o " chunk but found fmt chunk"
    /\ (header = <<100, 97, 116, 97>> /\ header # ownTag) =>
          err = prefix \o ": expected " \o own \o " chunk but found data chunk"
    /\ header \notin {<<68, 83, 68, 32>>, <<102, 109, 116, 32>>,
                      <<100, 97, 116, 97>>} =>
          err = prefix \o ": bad chunk header"

C4_ThreeWayTagCheck ==
    /\ AfterRead(1) =>
          C4_TagVerdict(DsdHeaderRead, "dsd", "DSD", <<68, 83, 68, 32>>)
    /\ AfterRead(2) =>
          C4_TagVerdict(FmtHeaderRead, "fmt", "fmt", <<102, 109, 116, 32>>)
    /\ AfterRead(3) =>
          C4_TagVerdict(DataHeaderRead, "data", "data", <<100, 97, 116, 97>>)

\* The data reader found a DSD chunk where the data chunk should be.
C4_Witness ==
    /\ AfterRead(3)
    /\ DataHeaderRead = dsdChunkHeader
    /\ err = "data: expected data chunk but found DSD chunk"
    /\ pc = "done"

(***************************************************************************)
(* C5.  For a DSD chunk with the right tag and chunk size, total file      *)
(* size T and metadata pointer P: the DSD reader succeeds exactly when     *)
(* T >= 92 and (P = 0 or 92 < P < T).  With P = 0 the metadata buffer is   *)
(* empty and the metadata reader is never called.  With 92 < P < T the     *)
(* metadata buffer has T - P bytes, and the metadata reader, once the data *)
(* reader succeeded, is called and reads exactly T - P bytes.              *)
(***************************************************************************)
C5_Accepts(T, P) == T >= 92 /\ (P = 0 \/ (92 < P /\ P < T))

C6_Needed ==
    CASE pc = "readDSD" -> 28
      [] pc = "readFmt" -> 52
      [] pc = "readData" -> 12 + BLen(d.audio.EncodedSamples)
      [] pc = "readMetadata" -> BLen(d.audio.Metadata)
      [] OTHER -> 0

C6_ShortSourceFailsStep ==
    (pc \in {"readDSD", "readFmt", "readData", "readMetadata"}
     /\ BLen(reader) < C6_Needed) =>
        /\ err' # "nil"
        /\ err' \notin Panics
        /\ pc' = "decodeRet"

C6_ErrorReturned ==
    (pc = "decodeRet" /\ err # "nil") =>
        (pc' = "done" /\ ret'.returned /\ ret'.err = err /\ ret'.audioNil)

C6_NoZeroFill ==
    (pc = "done" /\ ret.err = "nil") =>
        /\ ~ret.audioNil
        /\ nread <= BLen(source)
        /\ BTake(source, nread) =
               BCat(BFromSeq(d.dsd \o d.fmt \o d.data),
                    BCat(ret.audio.EncodedSamples, ret.audio.Metadata))

C6_TruncationIsAnError ==
    /\ [][C6_ShortSourceFailsStep /\ C6_ErrorReturned]_vars
    /\ [](C6_NoZeroFill)

\* Decode returned an error for a source that ends inside the metadata chunk,
\* one byte short.
C6_Witness ==
    /\ pc = "done"
    /\ steps = DecodeOrder
    /\ BLen(source) = TotalFileSizeRead - 1
    /\ ret.err = "unexpected EOF"
    /\ ret.audioNil

(***************************************************************************)
(* C7.  Each fixed field is accepted exactly when it holds its value: DSD  *)
(* chunk size 28, fmt chunk size 52, format version 1, format id 0, block  *)
(* size 4096, reserved 0, data chunk size 12 plus the length of the sample *)
(* buffer the fmt reader allocated.  Any other value makes the reader of   *)
(* the chunk return an error; the exact value never gives the error of     *)
(* that field.                                                             *)
(***************************************************************************)
C7_Field(bytes, fixed, message) ==
    /\ bytes # PutUint(fixed, Len(bytes)) => err # "nil"
    /\ bytes = PutUint(fixed, Len(bytes)) => err # message

C7_FixedFields ==
    /\ AfterRead(1) =>
          /\ C7_Field(Field(d.dsd, DsdChunk, 2), 28, "dsd: bad chunk size")
          /\ (DsdHeaderRead = <<68, 83, 68, 32>>
              /\ Field(d.dsd, DsdChunk, 2) # PutUint(28, 8)) =>
                err = "dsd: bad chunk size"
    /\ AfterRead(2) =>
          /\ C7_Field(Field(d.fmt, FmtChunk, 2), 52, "fmt: bad chunk size")
          /\ C7_Field(Field(d.fmt, FmtChunk, 3), 1, "fmt: bad format version")
          /\ C7_Field(Field(d.fmt, FmtChunk, 4), 0, "fmt: bad format id")
          /\ C7_Field(Field(d.fmt, FmtChunk, 10), 4096, "fmt: bad block size")
          /\ C7_Field(Field(d.fmt, FmtChunk, 11), 0, "fmt: bad reserved bytes")
          /\ err = "nil" => d.audio.BlockSize = 4096
    /\ AfterRead(3) =>
          /\ C7_Field(Field(d.data, DataChunk, 2),
                      12 + BLen(d.audio.EncodedSamples),
                      "data: bad chunk size")
          /\ (DataHeaderRead = <<100, 97, 116, 97>>
              /\ Field(d.data, DataChunk, 2)
                 # PutUint(12 + BLen(d.audio.EncodedSamples), 8)) =>
                err = "data: bad chunk size"

\* The data reader refused a data chunk whose size is one more than 12 plus
\* the length of the sample buffer.
C7_Witness ==
    /\ AfterRead(3)
    /\ pc = "done"
    /\ BLen(d.audio.EncodedSamples) = 2 * 4096
    /\ DataSizeRead = 12 + BLen(d.audio.EncodedSamples) + 1
    /\ ret.err = "data: bad chunk size"

(***************************************************************************)
(* C8.  With every other field of the fmt chunk valid, the fmt reader      *)
(* succeeds exactly when (channel type, channel num) is one of (1,1),      *)
(* (2,2), (3,3), (4,4), (5,4), (6,5), (7,6); it then sets the channel      *)
(* count to channel num and the channel order to the canonical order of    *)
(* the channel type.                                                       *)
(***************************************************************************)
C8_Pairs ==
    {<<1, 1>>, <<2, 2>>, <<3, 3>>, <<4, 4>>, <<5, 4>>, <<6, 5>>, <<7, 6>>}

C8_OtherFieldsValid ==
    /\ FmtHeaderRead = <<102, 109, 116, 32>>
    /\ FmtSizeRead = 52
    /\ VersionRead = 1
    /\ IdentifierRead = 0
    /\ SamplingFrequencyRead \in PermittedFrequencies
    /\ BitsPerSampleRead \in {1, 8}
    /\ SampleCountSmall
    /\ BlockSizeRead = 4096
    /\ ReservedRead = 0

C9_OtherFieldsValid ==
    /\ FmtHeaderRead = <<102, 109, 116, 32>>
    /\ FmtSizeRead = 52
    /\ VersionRead = 1
    /\ IdentifierRead = 0
    /\ <<ChannelTypeRead, ChannelNumRead>> \in C8_Pairs
    /\ SampleCountSmall
    /\ BlockSizeRead = 4096
    /\ ReservedRead = 0

C10_CeilDiv(x, y) == (x + y - 1) \div y

C10_RoundUp(x, block) == C10_CeilDiv(x, block) * block

C10_SampleBufferLength ==
    (AfterRead(2) /\ err = "nil") =>
        IF SampleCountSmall
        THEN BLen(d.audio.EncodedSamples) =
                 C10_RoundUp(C10_CeilDiv(SampleCountRead,
                                         8 \div BitsPerSampleRead),
                             4096) * ChannelNumRead
        \* a sample count of 2^24 or more: at least 2^21 bytes per channel
        ELSE BLen(d.audio.EncodedSamples) >= 2 ^ 21

(***************************************************************************)
(* C11.  When the data reader is called on a source that starts with a     *)
(* data chunk header whose size is 12 + N, N the length of the sample      *)
(* buffer the fmt reader allocated: if at least N bytes follow the header  *)
(* the reader succeeds, the sample buffer holds those N bytes in the order *)
(* of the source and the byte after them is the next one to be read; if    *)
(* fewer than N bytes follow the reader returns an error.                  *)
(***************************************************************************)
C11_HeaderOffered ==
    /\ pc = "readData"
    /\ BLen(reader) >= 12
    /\ BTake(reader, 12) =
           BFromSeq(<<100, 97, 116, 97>>
                    \o PutUint(12 + BLen(d.audio.EncodedSamples), 8))

C11_DataStep ==
    LET N == BLen(d.audio.EncodedSamples) IN
    C11_HeaderOffered =>
        IF BLen(reader) >= 12 + N
        THEN /\ err' = "nil"
             /\ d'.audio.EncodedSamples = BTake(BDrop(reader, 12), N)
             /\ reader' = BDrop(reader, 12 + N)
             /\ nread' = nread + 12 + N
        ELSE /\ err' \in ReadErrors
             /\ pc' = "decodeRet"

C11_SamplesRead == [][C11_DataStep]_vars

\* The data reader filled a buffer of two blocks with the sample bytes of the
\* source and left the metadata after them unread.
C11_Witness ==
    /\ AfterRead(3)
    /\ err = "nil"
    /\ pc = "readMetadata"
    /\ BLen(d.audio.EncodedSamples) = 2 * 4096
    /\ d.audio.EncodedSamples = BTake(BDrop(source, 92), 2 * 4096)
    /\ d.audio.EncodedSamples # BZeros(2 * 4096)
    /\ BLen(reader) = MaxMetaLen

(***************************************************************************)
(* C12.  The metadata reader, once it has read the metadata bytes, fails   *)
(* with an error when their first 4 bytes are the tag of a DSD, fmt or     *)
(* data chunk, and otherwise succeeds with the metadata buffer holding     *)
(* exactly the bytes read, in order.                                       *)
(***************************************************************************)
C12_BytesRead ==
    BTake(BDrop(source, nread - BLen(d.audio.Metadata)),
          BLen(d.audio.Metadata))

C12_Collides ==
    /\ BLen(C12_BytesRead) >= 4
    /\ BExpand(BTake(C12_BytesRead, 4)) \in
           {<<68, 83, 68, 32>>, <<102, 109, 116, 32>>, <<100, 97, 116, 97>>}

C12_MetadataTagCheck ==
    (Len(steps) = 4 /\ steps = DecodeOrder /\ err \notin ReadErrors) =>
        /\ C12_Collides =>
              /\ err # "nil"
              /\ err \notin Panics
              /\ pc \in {"decodeRet", "done"}
        /\ ~C12_Collides =>
              /\ err = "nil"
              /\ d.audio.Metadata = C12_BytesRead

(***************************************************************************)
(* C13.  End to end: Decode of a well-formed stream that consists of a DSD *)
(* chunk with metadata pointer 0, a stereo (channel type 2, channel num    *)
(* 2), 2822400 Hz, 1 bit, block size 4096 fmt chunk with sample count S,   *)
(* and a data chunk with the N sample bytes that S samples take            *)
(* (N = roundUp(ceil(S / 8), 4096) * 2), returns without error an Audio    *)
(* with NumChannels 2, ChannelOrder [FrontLeft, FrontRight],               *)
(* SamplingFrequency 2822400, BitsPerSample 1, BlockSize 4096, N sample    *)
(* bytes and no metadata.                                                  *)
(***************************************************************************)
C13_Chunks(S, N) ==
    <<68, 83, 68, 32>> \o PutUint(28, 8) \o PutUint(92 + N, 8)
    \o PutUint(0, 8)
    \o <<102, 109, 116, 32>> \o PutUint(52, 8) \o PutUint(1, 4)
    \o PutUint(0, 4) \o PutUint(2, 4) \o PutUint(2, 4)
    \o PutUint(2822400, 4) \o PutUint(1, 4) \o PutUint(S, 8)
    \o PutUint(4096, 4) \o PutUint(0, 4)
    \o <<100, 97, 116, 97>> \o PutUint(12 + N, 8)

C13_WellFormedStereo ==
    /\ BLen(source) >= 92
    /\ LET N == BLen(source) - 92
           sampleCount ==
               Field(BExpand(BTake(BDrop(source, 28), 52)), FmtChunk, 9)
       IN  /\ SubSeq(sampleCount, 4, 8) = <<0, 0, 0, 0, 0>>
           /\ BTake(source, 92) = BFromSeq(C13_Chunks(Uint(sampleCount), N))
           /\ N = C10_RoundUp(C10_CeilDiv(Uint(sampleCount), 8), 4096) * 2

C13_EndToEnd ==
    (pc = "done" /\ C13_WellFormedStereo) =>
        /\ ret.err = "nil"
        /\ ~ret.audioNil
        /\ ret.audio.NumChannels = 2
        /\ ret.audio.ChannelOrder = <<0, 1>>
        /\ ret.audio.SamplingFrequency = 2822400
        /\ ret.audio.BitsPerSample = 1
        /\ ret.audio.BlockSize = 4096
        /\ BLen(ret.audio.EncodedSamples) = BLen(source) - 92
        /\ ret.audio.EncodedSamples = BDrop(source, 92)
        /\ ret.audio.Metadata = <<>>

(***************************************************************************)
(* C14.  Encode called with an Audio whose encoding is not DSD returns     *)
(* the error "unsupported audio encoding" as its first and only step: no   *)
(* chunk writer is called, no Write is made on the sink, the sink holds no *)
(* byte and the Audio is as it was passed.                                 *)
(***************************************************************************)
C14_CallStep ==
    (pc = "idle" /\ a'.Encoding # 0 /\ pc' # "readDSD") =>
        /\ pc' = "encDone"
        /\ eret' = "unsupported audio encoding"
        /\ writer' = <<>>
        /\ nwrites' = 0

C14_AfterCall ==
    (a.Encoding # 0 /\ pc # "idle") =>
        /\ pc = "encDone"
        /\ eret = "unsupported audio encoding"
        /\ writer = <<>>
        /\ nwrites = 0
        /\ steps = <<>>
        /\ a' = a
        /\ writer' = writer

C14_UnsupportedEncoding == [][C14_CallStep /\ C14_AfterCall]_vars

\* Encode has refused a DST Audio whose samples do not fill their last block,
\* given a nil logTo.
C14_Witness ==
    /\ pc = "encDone"
    /\ a.Encoding = 1
    /\ BLen(a.EncodedSamples) % a.BlockSize # 0
    /\ logTo = "nil"
    /\ eret = "unsupported audio encoding"
    /\ writer = <<>>

(***************************************************************************)
(* C15.  The padding step of Encode zero-pads the sample buffer up to the  *)
(* next multiple of the block size: after it the buffer is the original    *)
(* bytes followed by zero bytes, its length the smallest multiple of the   *)
(* block size that is not less than the original length; a buffer whose    *)
(* length is a multiple already is left unchanged.                         *)
(***************************************************************************)
C15_PadStep ==
    (pc = "pad" /\ a.BlockSize > 0) =>
        LET n == BLen(a.EncodedSamples)
            padded == C10_RoundUp(n, a.BlockSize)
        IN  /\ pc' = "writeDSD"
            /\ a'.EncodedSamples = BCat(a.EncodedSamples, BZeros(padded - n))
            /\ BLen(a'.EncodedSamples) = padded
            /\ n % a.BlockSize = 0 => a' = a

C15_ZeroPadding == [][C15_PadStep]_vars

(***************************************************************************)
(* C16.  The DSD chunk Encode writes is the first 28 bytes of the sink:    *)
(* the tag "DSD ", the size 28, the total file size 92 + the length of the *)
(* sample buffer after the padding step (a multiple of the block size) +   *)
(* the length of the metadata, and the metadata pointer, 0 when the Audio  *)
(* has no metadata and total file size - metadata length otherwise.        *)
(***************************************************************************)
C16_DsdChunkWritten ==
    BLen(writer) >= 28 =>
        LET total == 92 + BLen(a.EncodedSamples) + BLen(a.Metadata)
            pointer == IF BLen(a.Metadata) = 0 THEN 0
                       ELSE total - BLen(a.Metadata)
        IN  /\ BLen(a.EncodedSamples) % a.BlockSize = 0
            /\ BTake(writer, 28) =
                   BFromSeq(<<68, 83, 68, 32>> \o PutUint(28, 8)
                            \o PutUint(total, 8) \o PutUint(pointer, 8))
            /\ e.dsd = BExpand(BTake(writer, 28))

\* Encode wrote the DSD chunk of an Audio with two blocks of samples and
\* metadata: the pointer is the offset of the metadata.
C16_Witness ==
    /\ pc = "writeFmt"
    /\ BLen(writer) = 28
    /\ BLen(a.EncodedSamples) = 2 * 4096
    /\ BLen(a.Metadata) = MaxMetaLen
    /\ Uint(Field(e.dsd, DsdChunk, 3)) = 92 + 2 * 4096 + MaxMetaLen
    /\ Uint(Field(e.dsd, DsdChunk, 4)) = 92 + 2 * 4096

(***************************************************************************)
(* C17.  When Encode returns nil the sink holds, in this order: the 28     *)
(* bytes of the DSD chunk, the 52 bytes of the fmt chunk, the data chunk   *)
(* header with size 12 + the padded sample length, the padded sample       *)
(* bytes and the metadata bytes, if any; so the number of bytes written is *)
(* the total file size written in the DSD chunk.                           *)
(***************************************************************************)
C17_WriteOrder ==
    (pc = "encDone" /\ eret = "nil") =>
        /\ BLen(writer) >= 92
        /\ BTake(writer, 4) = BFromSeq(<<68, 83, 68, 32>>)
        /\ BTake(BDrop(writer, 28), 4) = BFromSeq(<<102, 109, 116, 32>>)
        /\ BTake(BDrop(writer, 80), 12) =
               BFromSeq(<<100, 97, 116, 97>>
                        \o PutUint(12 + BLen(a.EncodedSamples), 8))
        /\ BDrop(writer, 92) = BCat(a.EncodedSamples, a.Metadata)
        /\ BLen(writer) = Uint(Field(BExpand(BTake(writer, 28)), DsdChunk, 3))

(***************************************************************************)
(* C18.  Encode is all-or-nothing for validation failures: whenever it     *)
(* returns an error that depends on the Audio only (unsupported audio      *)
(* encoding, unsupported channel ordering, mismatch between num channels   *)
(* and channel order, unsupported sampling frequency, unsupported bits per *)
(* sample) no byte has been written to the sink and no Write made on it.   *)
(***************************************************************************)
C18_ValidationErrors ==
    {"unsupported audio encoding",
     "fmt: unsupported channel ordering",
     "fmt: mismatch between num channels and channel order",
     "fmt: unsupported sampling frequency",
     "fmt: unsupported bits per sample"}

C18_AllOrNothing ==
    (pc = "encDone" /\ eret \in C18_ValidationErrors) =>
        (writer = <<>> /\ nwrites = 0)

(***************************************************************************)
(* C19.  Encode rejects with the mismatch error every Audio whose channel  *)
(* count differs from the length of its (canonical) channel order, so the  *)
(* fmt chunk it writes never has a channel num different from the length   *)
(* of the canonical order of the channel type it has.                      *)
(***************************************************************************)
C19_ChannelTypeWritten ==
    Uint(Field(BExpand(BTake(BDrop(writer, 28), 52)), FmtChunk, 5))

C19_ChannelNumWritten ==
    Uint(Field(BExpand(BTake(BDrop(writer, 28), 52)), FmtChunk, 6))

C19_ChannelCountMismatch ==
    /\ (steps = <<"writeDSDChunk", "writeFmtChunk">>
        /\ err \notin Panics
        /\ (\E t \in 1..7 : a.ChannelOrder = CanonicalOrder(t))
        /\ a.NumChannels # Len(a.ChannelOrder)) =>
          err = "fmt: mismatch between num channels and channel order"
    /\ BLen(writer) >= 80 =>
          /\ C19_ChannelTypeWritten \in 1..7
          /\ C19_ChannelNumWritten =
                 Len(CanonicalOrder(C19_ChannelTypeWritten))

(***************************************************************************)
(* C20.  Channel type and channel order map both ways.  When the fmt       *)
(* writer is called with an Audio whose channel order is the canonical     *)
(* order of a channel type t in 1..7 it does not fail with the unsupported *)
(* channel ordering error, and the fmt chunk it writes has channel type t, *)
(* which the decoder's table resolves to that very order.  With any other  *)
(* channel order (the empty order, a permutation, a prefix) it fails with  *)
(* the unsupported channel ordering error.                                 *)
(***************************************************************************)
C20_Canonical(order) == \E t \in 1..7 : order = CanonicalOrder(t)

C20_ChannelTypeBothWays ==
    /\ steps = <<"writeDSDChunk", "writeFmtChunk">> =>
          /\ ~C20_Canonical(a.ChannelOrder) =>
                err = "fmt: unsupported channel ordering"
          /\ C20_Canonical(a.ChannelOrder) =>
                err # "fmt: unsupported channel ordering"
    /\ BLen(writer) >= 80 =>
          /\ C19_ChannelTypeWritten \in 1..7
          /\ CanonicalOrder(C19_ChannelTypeWritten) = a.ChannelOrder
          /\ fmtChannelOrder[C19_ChannelTypeWritten] = a.ChannelOrder
          /\ fmtChannelCheck(C19_ChannelTypeWritten, Len(a.ChannelOrder))
             = "nil"

\* Encode wrote channel type 5 for the 4-channel order with a centre and a
\* low frequency channel, told apart from the quad order of the same length.
C20_Witness ==
    /\ pc = "encDone"
    /\ eret = "nil"
    /\ a.ChannelOrder = <<0, 1, 2, 3>>
    /\ BLen(writer) = 80
    /\ C19_ChannelTypeWritten = 5

(***************************************************************************)
(* C21.  When the fmt writer is called with an Audio whose sampling        *)
(* frequency is not 2822400, 5644800, 11289600 or 22579200, or whose bits  *)
(* per sample are not 1 or 8, Encode returns an error: the unsupported     *)
(* sampling frequency or unsupported bits per sample error when the        *)
(* channel checks before them pass.  The fmt chunk Encode writes holds     *)
(* exactly the sampling frequency and the bits per sample of the Audio,    *)
(* both permitted values.                                                  *)
(***************************************************************************)
C21_ChannelErrors ==
    {"fmt: unsupported channel ordering",
     "fmt: mismatch between num channels and channel order"}

C22_FixedFieldsWritten ==
    BLen(writer) >= 80 =>
        LET chunk == BExpand(BTake(BDrop(writer, 28), 52)) IN
        /\ Field(chunk, FmtChunk, 1) = <<102, 109, 116, 32>>
        /\ Field(chunk, FmtChunk, 2) = PutUint(52, 8)
        /\ Field(chunk, FmtChunk, 3) = PutUint(1, 4)
        /\ Field(chunk, FmtChunk, 4) = PutUint(0, 4)
        /\ Field(chunk, FmtChunk, 10) = PutUint(4096, 4)
        /\ Field(chunk, FmtChunk, 11) = PutUint(0, 4)
        /\ fmtHeaderCheck(Field(chunk, FmtChunk, 1)) = "nil"
        /\ fmtFixedCheck(Uint(Field(chunk, FmtChunk, 2)),
                         Uint(Field(chunk, FmtChunk, 3)),
                         Uint(Field(chunk, FmtChunk, 4))) = "nil"
        /\ fmtTailCheck(Uint(Field(chunk, FmtChunk, 10)),
                        Uint(Field(chunk, FmtChunk, 11))) = "nil"

(***************************************************************************)
(* C23.  No mutable state is shared across calls: what a caller writes to  *)
(* an Audio that Decode returned (an element of its ChannelOrder, say)     *)
(* changes neither the table of channel orders nor the result of a later   *)
(* call: a later successful Decode still returns the canonical order of    *)
(* the channel type it read, and a later Encode still takes every          *)
(* canonical order.                                                        *)
(***************************************************************************)
C23_NoSharedState ==
    /\ orders = fmtChannelOrder
    /\ (pc = "done" /\ ret.err = "nil") =>
          ret.audio.ChannelOrder = CanonicalOrder(ChannelTypeRead)
    /\ (steps = <<"writeDSDChunk", "writeFmtChunk">>
        /\ C20_Canonical(a.ChannelOrder)) =>
          err # "fmt: unsupported channel ordering"

(***************************************************************************)
(* C24.  Decode fails on every stream in which a mandatory chunk is        *)
(* repeated: a second DSD chunk after the first, a second fmt chunk after  *)
(* the fmt chunk, or a second data chunk after the samples of the data     *)
(* chunk, whether the DSD chunk announces metadata or not.                 *)
(***************************************************************************)
C24_TagAt(offset, tag) ==
    /\ BLen(source) >= offset + 4
    /\ BTake(BDrop(source, offset), 4) = BFromSeq(tag)

C24_RepeatedDsd ==
    C24_TagAt(0, <<68, 83, 68, 32>>) /\ C24_TagAt(28, <<68, 83, 68, 32>>)

C24_RepeatedFmt ==
    /\ C24_TagAt(0, <<68, 83, 68, 32>>)
    /\ C24_TagAt(28, <<102, 109, 116, 32>>)
    /\ C24_TagAt(80, <<102, 109, 116, 32>>)

C24_RepeatedData ==
    /\ C24_TagAt(0, <<68, 83, 68, 32>>)
    /\ C24_TagAt(28, <<102, 109, 116, 32>>)
    /\ C24_TagAt(80, <<100, 97, 116, 97>>)
    /\ LET size == Uint(BExpand(BTake(BDrop(source, 84), 8))) IN
       size >= 12 /\ C24_TagAt(80 + size, <<100, 97, 116, 97>>)

C24_RepeatedChunkFails ==
    (pc = "done"
     /\ (C24_RepeatedDsd \/ C24_RepeatedFmt \/ C24_RepeatedData)) =>
        (ret.err # "nil" /\ ret.audioNil)

(***************************************************************************)
(* C25.  The log destination is optional and has no effect on the result.  *)
(* Decode never logs to a nil destination, and no step of it depends on    *)
(* the destination.  Each step of Encode ends with a nil logTo as it ends  *)
(* with a log destination: the same error or the same success, with the    *)
(* same bytes in the sink; so Encode returns the same result and writes    *)
(* the same bytes whether logTo is nil or not.                             *)
(***************************************************************************)
C25_Outcome(r) == <<IF r.err \in Panics THEN "panic" ELSE r.err, r.writer>>

C25_PadOutcome(logNil) ==
    C25_Outcome([err |-> encodePad(a, logNil).err, writer |-> writer])

C25_DsdOutcome(logNil) ==
    C25_Outcome(writeDSDChunk(a, e, writer, logNil, failAt = nwrites + 1))

C25_FmtOutcome(logNil) ==
    C25_Outcome(writeFmtChunk(a, e, writer, logNil, failAt = nwrites + 1))

C25_LogHasNoEffect ==
    /\ Decoding => logTo \in {"discard", "sink"}
    /\ pc = "pad" => C25_PadOutcome(TRUE) = C25_PadOutcome(FALSE)
    /\ pc = "writeDSD" => C25_DsdOutcome(TRUE) = C25_DsdOutcome(FALSE)
    /\ pc = "writeFmt" => C25_FmtOutcome(TRUE) = C25_FmtOutcome(FALSE)
    /\ pc = "panic" => err # "panic: nil pointer dereference"

(***************************************************************************)
(* C26.  Nothing in the codec is fatal to the host process: no step of     *)
(* Decode and no step of Encode ends in a run-time panic, whatever the     *)
(* byte stream (metadata of 1 to 3 bytes included) and whatever the Audio  *)
(* (a block size of 0 and a sample buffer of any length included); every   *)
(* call ends by returning.                                                 *)
(***************************************************************************)
C26_DecodePanicked ==
    pc = "panic" /\ steps # <<>> /\ steps[1] = "readDSDChunk"

C26_EncodePanicked == pc = "panic" /\ ~C26_DecodePanicked

C26_DecodeNeverPanics == ~C26_DecodePanicked

C26_EncodeNeverPanics == ~C26_EncodePanicked

C26_NothingFatal == C26_DecodeNeverPanics /\ C26_EncodeNeverPanics

(***************************************************************************)
(* C27.  Every Audio a successful Decode returns satisfies the invariants  *)
(* of an Audio: the encoding is DSD, the channel count is in 1..6 and is   *)
(* the length of the channel order, the sampling frequency is one of the   *)
(* four permitted, the bits per sample are 1 or 8, the block size is 4096, *)
(* the sample buffer is not empty and its length is a multiple of block    *)
(* size times channel count, and the metadata is empty exactly when the    *)
(* metadata pointer of the DSD chunk was 0.                                *)
(***************************************************************************)
C27_Returned == pc = "done" /\ ret.returned /\ ret.err = "nil"

C27_ChannelsAndRate(au) ==
    /\ au.Encoding = DSD
    /\ au.NumChannels \in 1..6
    /\ au.NumChannels = Len(au.ChannelOrder)
    /\ au.SamplingFrequency \in PermittedFrequencies
    /\ au.BitsPerSample \in {1, 8}
    /\ au.BlockSize = 4096

C27_Samples(au) ==
    /\ BLen(au.EncodedSamples) > 0
    /\ BLen(au.EncodedSamples) % (au.BlockSize * au.NumChannels) = 0

C27_Metadata(au) ==
    BLen(au.Metadata) = 0 <=> Field(d.dsd, DsdChunk, 4) = PutUint(0, 8)

C27_AudioInvariants ==
    C27_Returned =>
        /\ ~ret.audioNil
        /\ C27_ChannelsAndRate(ret.audio)
        /\ C27_Samples(ret.audio)
        /\ C27_Metadata(ret.audio)

(***************************************************************************)
(* C28.  Whenever Decode succeeds, the number of bytes it took from the    *)
(* source is the total file size of the DSD chunk: a metadata pointer      *)
(* other than 0 is the offset 92 + sample length at which the metadata     *)
(* was read, and with the pointer 0 the total file size is 92 + sample     *)
(* length.                                                                 *)
(***************************************************************************)
C28_Succeeded == pc = "done" /\ ret.returned /\ ret.err = "nil"

C28_ConsumedIsTotalFileSize ==
    C28_Succeeded => PutUint(nread, 8) = Field(d.dsd, DsdChunk, 3)

C28_PointerIsMetadataOffset ==
    C28_Succeeded =>
        LET samplesEnd == PutUint(92 + BLen(d.audio.EncodedSamples), 8) IN
        IF Field(d.dsd, DsdChunk, 4) = PutUint(0, 8)
        THEN Field(d.dsd, DsdChunk, 3) = samplesEnd
        ELSE Field(d.dsd, DsdChunk, 4) = samplesEnd

C28_ConsumedAsAnnounced ==
    C28_ConsumedIsTotalFileSize /\ C28_PointerIsMetadataOffset

(***************************************************************************)
(* C29.  For every Audio that Encode accepts, the DSD chunk it wrote is    *)
(* one readDSDChunk accepts: the total file size is at least 92 and the    *)
(* metadata pointer is 0 or strictly between 92 and the total file size,   *)
(* also when the Audio has metadata and an empty sample buffer.            *)
(***************************************************************************)
C29_Accepted == pc = "encDone" /\ eret = "nil"

C29_TotalFileSizeWritten == Uint(Field(e.dsd, DsdChunk, 3))

C29_MetadataPointerWritten == Uint(Field(e.dsd, DsdChunk, 4))

C29_DsdChunkAccepted ==
    C29_Accepted =>
        /\ BExpand(BTake(writer, 28)) = e.dsd
        /\ C29_TotalFileSizeWritten >= 92
        /\ \/ C29_MetadataPointerWritten = 0
           \/ /\ 92 < C29_MetadataPointerWritten
              /\ C29_MetadataPointerWritten < C29_TotalFileSizeWritten
        /\ readDSDChunk(writer, ZeroDecoder).err = "nil"

(***************************************************************************)
(* C30.  Encode issues its writes one after the other: the fmt chunk       *)
(* writer is called only after the DSD chunk has been written to the sink, *)
(* and when a Write of the sink fails Encode returns that error at once:   *)
(* no writer is called after the failure, the failed Write is not tried    *)
(* again and nothing more is written.                                      *)
(***************************************************************************)
C30_Encoding == pc \in {"writeDSD", "writeFmt", "encodeRet", "encDone"}

\* The Write that the sink fails has been issued.
C30_WriteFailed == failAt > 0 /\ nwrites = failAt

C30_InSequence ==
    C30_Encoding =>
        /\ steps \in {<<>>, <<"writeDSDChunk">>,
                      <<"writeDSDChunk", "writeFmtChunk">>}
        /\ nwrites <= Len(steps)
        /\ (pc = "writeFmt" \/ Len(steps) = 2) =>
              /\ failAt # 1
              /\ nwrites >= 1
              /\ BExpand(BTake(writer, 28)) = e.dsd

C30_FailureEndsEncode ==
    (C30_Encoding /\ C30_WriteFailed) =>
        /\ pc \in {"encodeRet", "encDone"}
        /\ err = "write error"
        /\ pc = "encDone" => eret = "write error"
        /\ Len(steps) = failAt
        /\ BLen(writer) = 28 * (failAt - 1)

C30_WritesInSequence == C30_InSequence /\ C30_FailureEndsEncode

\* The sink failed the first Write: Encode returned the error after the DSD
\* chunk writer alone, with nothing in the sink.
C30_Witness ==
    /\ pc = "encDone"
    /\ failAt = 1
    /\ nwrites = 1
    /\ steps = <<"writeDSDChunk">>
    /\ eret = "write error"
    /\ writer = <<>>

=============================================================================
